---- MODULE Spec2Model ----
(***************************************************************************)
(* Model of the TrailDB encoder, src/src/tdb_encode.c: tdb_encode and the  *)
(* functions it drives (timestamp_range, group_events, edge_encode_items,  *)
(* store_info, encode_trails, store_codebook).                             *)
(*                                                                         *)
(* The run is single-threaded; pc is the position of tdb_encode.  File and *)
(* allocation failures (the DIE calls after fopen, realloc, fseek, fwrite) *)
(* are outside the model: the output directory is fresh and writable.      *)
(*                                                                         *)
(* Widths are scaled so that TLC can enumerate the boundary cases:         *)
(*   - a stored timestamp is DeltaBits + TagBits wide (24 + 8 in the code) *)
(*   - the largest trail file offset, UINT32_MAX, is a few TOC entries     *)
(*   - MAX_INVALID_RATIO is MaxInvalidRatioNum / MaxInvalidRatioDen        *)
(***************************************************************************)
EXTENDS Integers, Sequences, FiniteSets

(***************************************************************************)
(* Bounds of the model                                                     *)
(***************************************************************************)
MaxEvents == 3

DeltaBits == 2

UINT32_MAX == 16

MaxInvalidRatioNum == 1

MaxInvalidRatioDen == 2

NumFields == 3

(***************************************************************************)
(* Program constants                                                       *)
(***************************************************************************)
TagBits == 8

TagMask == 255

TocEntrySize == 4

HeaderBits == 3

DeltaLimit == 2 ^ DeltaBits

TimestampBits == DeltaBits + TagBits

TimestampMod == 2 ^ TimestampBits

TimestampMax == TimestampMod - 1

OffsetMod == UINT32_MAX + 1

(***************************************************************************)
(* Items: a packed (field, value) pair; field 0 is the timestamp field.    *)
(***************************************************************************)
ItemFieldRadix == 256

tdb_item_field(item) == item % ItemFieldRadix

ItemOf(field, val) == val * ItemFieldRadix + field

Fields == 0 .. (NumFields - 1)

ZeroItems == [f \in Fields |-> 0]

(***************************************************************************)
(* Inputs of tdb_encode, as the caller builds them: every event belongs to *)
(* one cookie, prev_event_idx is the 1-based index of the previous event   *)
(* of the same cookie (0 for the first), cookie_pointers[c] is the 0-based *)
(* index of the last event of cookie c, and the items of event e occupy    *)
(* [item_zero, item_zero + num_items) of the flat item array.              *)
(***************************************************************************)
TimestampChoices == {1, 2, DeltaLimit + 1, DeltaLimit + 2}

ItemListsSimple == {<<ItemOf(1, 1)>>}

RECURSIVE SumLen(_, _)
SumLen(lists, n) == IF n = 0 THEN 0 ELSE Len(lists[n]) + SumLen(lists, n - 1)

RECURSIVE Concat(_, _)
Concat(lists, n) == IF n = 0 THEN <<>> ELSE Concat(lists, n - 1) \o lists[n]

SetMax(S) == CHOOSE x \in S : \A y \in S : y <= x

PrevOfSameCookie(cookie_of, e) ==
    LET earlier == {d \in 1 .. (e - 1) : cookie_of[d] = cookie_of[e]}
    IN  IF earlier = {} THEN 0 ELSE SetMax(earlier)

MakeEvents(cookie_of, ts, lists) ==
    [e \in 1 .. Len(ts) |->
        [timestamp      |-> ts[e],
         item_zero      |-> SumLen(lists, e - 1),
         num_items      |-> Len(lists[e]),
         prev_event_idx |-> PrevOfSameCookie(cookie_of, e)]]

MakePointers(cookie_of, n, k) ==
    [c \in 1 .. k |-> SetMax({e \in 1 .. n : cookie_of[e] = c - 1}) - 1]

(***************************************************************************)
(* State                                                                   *)
(***************************************************************************)
VARIABLES
    events, cookie_pointers, items,
    pc, abort_reason, events_freed,
    min_timestamp, max_timestamp, max_timestamp_delta,
    group_i, num_invalid, idx, grouped, grouped_state,
    info,
    file_offs, enc_i, grouped_pos, ev, prev_items,
    trail_state, trail_toc, trail_writes, edge_log, trail_buf,
    codebook, models

inputVars == <<events, cookie_pointers, items>>

rangeVars == <<min_timestamp, max_timestamp>>

groupVars == <<max_timestamp_delta, group_i, num_invalid, idx, grouped>>

encVars == <<file_offs, enc_i, grouped_pos, ev, prev_items,
             trail_state, trail_toc, trail_writes, edge_log, trail_buf>>

vars == <<events, cookie_pointers, items,
          pc, abort_reason, events_freed,
          min_timestamp, max_timestamp, max_timestamp_delta,
          group_i, num_invalid, idx, grouped, grouped_state,
          info,
          file_offs, enc_i, grouped_pos, ev, prev_items,
          trail_state, trail_toc, trail_writes, edge_log, trail_buf,
          codebook, models>>

num_events == Len(events)

num_cookies == Len(cookie_pointers)

NoEvent == [cookie_id |-> 0, item_zero |-> 0, num_items |-> 0, timestamp |-> 0,
            orig |-> 0]

NoInfo == <<>>

Unwritten == -1

(***************************************************************************)
(* timestamp_range                                                         *)
(***************************************************************************)
RECURSIVE RangeLoop(_, _, _, _)
RangeLoop(evs, i, lo, hi) ==
    IF i > Len(evs) THEN [min_timestamp |-> lo, max_timestamp |-> hi]
    ELSE LET t == evs[i].timestamp
         IN  RangeLoop(evs, i + 1,
                       IF t < lo THEN t ELSE lo,
                       IF t > hi THEN t ELSE hi)

\* the minimum started at 0 as the maximum is
timestamp_range_min_from_zero(evs) == RangeLoop(evs, 1, 0, 0)

timestamp_range(evs) == RangeLoop(evs, 1, TimestampMax, 0)

(***************************************************************************)
(* group_events: chain walk, qsort with compare, delta encoding, gate      *)
(***************************************************************************)
\* The field orig is a history field: the original timestamp of the event
\* the record was made from (the local `prev` of the delta loop).
RECURSIVE ChainWalk(_, _, _)
ChainWalk(evs, i, at) ==
    LET e == evs[at + 1]
        rec == [cookie_id |-> i,
                item_zero |-> e.item_zero,
                num_items |-> e.num_items,
                timestamp |-> e.timestamp,
                orig      |-> e.timestamp]
    IN  IF e.prev_event_idx # 0
        THEN <<rec>> \o ChainWalk(evs, i, e.prev_event_idx - 1)
        ELSE <<rec>>

compareDescending(x, y) ==
    IF x.timestamp > y.timestamp THEN -1
    ELSE IF x.timestamp < y.timestamp THEN 1
    ELSE 0

compare(x, y) ==
    IF x.timestamp > y.timestamp THEN 1
    ELSE IF x.timestamp < y.timestamp THEN -1
    ELSE 0

\* qsort: any permutation of buf that compare orders; ties in any order.
Permutations(n) == {p \in [1 .. n -> 1 .. n] : \A a, b \in 1 .. n : p[a] = p[b] => a = b}

qsort(buf) ==
    {s \in {[j \in 1 .. Len(buf) |-> buf[p[j]]] : p \in Permutations(Len(buf))} :
        \A j \in 1 .. (Len(buf) - 1) : compare(s[j], s[j + 1]) <= 0}

Sub32(a, b) == (a - b) % TimestampMod

Shl8(x) == (x * (2 ^ TagBits)) % TimestampMod

DeltaFitsInclusive(delta) == delta <= DeltaLimit

DeltaFits(delta) == delta < DeltaLimit

AdvanceAlways(fits, prev, prev_timestamp) == prev

AdvanceReference(fits, prev, prev_timestamp) ==
    IF fits THEN prev ELSE prev_timestamp

RaiseMaxDeltaLast(delta, max_delta) == delta

RaiseMaxDelta(delta, max_delta) ==
    IF delta > max_delta THEN delta ELSE max_delta

RECURSIVE DeltaLoop(_, _, _, _, _)
DeltaLoop(buf, j, prev_timestamp, max_delta, invalid) ==
    IF j > Len(buf)
    THEN [buf |-> buf, max_timestamp_delta |-> max_delta, num_invalid |-> invalid]
    ELSE LET prev == buf[j].timestamp
             delta == Sub32(prev, prev_timestamp)
             fits == DeltaFits(delta)
             next_prev == AdvanceReference(fits, prev, prev_timestamp)
         IN  IF fits
             THEN DeltaLoop([buf EXCEPT ![j].timestamp = Shl8(delta)], j + 1,
                            next_prev, RaiseMaxDelta(delta, max_delta),
                            invalid)
             ELSE DeltaLoop([buf EXCEPT ![j].timestamp = 1], j + 1,
                            next_prev, max_delta, invalid + 1)

\* num_invalid / (float)idx > MAX_INVALID_RATIO in IEEE 754 arithmetic: a
\* zero divisor gives +inf for a positive dividend and NaN (which compares
\* false) for a zero one.  idx is declared 0 and never assigned.
InvalidRatioExceeded(invalid, total) ==
    IF total = 0 THEN invalid > 0
    ELSE invalid * MaxInvalidRatioDen > MaxInvalidRatioNum * total

GroupLoopDoneEarly(i) == i >= 1

GroupLoopDone(i) == i >= num_cookies

(***************************************************************************)
(* Initial states: the inputs handed to tdb_encode                         *)
(***************************************************************************)
InitRun(cookie_of, ts, lists, k) ==
    /\ events = MakeEvents(cookie_of, ts, lists)
    /\ cookie_pointers = MakePointers(cookie_of, Len(ts), k)
    /\ items = Concat(lists, Len(ts))
    /\ abort_reason = "none"
    /\ events_freed = FALSE
    /\ min_timestamp = 0
    /\ max_timestamp = 0
    /\ max_timestamp_delta = 0
    /\ group_i = 0
    /\ num_invalid = 0
    /\ idx = 0
    /\ grouped = <<>>
    /\ grouped_state = "absent"
    /\ info = NoInfo
    /\ file_offs = 0
    /\ enc_i = 0
    /\ grouped_pos = 0
    /\ ev = NoEvent
    /\ prev_items = ZeroItems
    /\ trail_state = "absent"
    /\ trail_toc = <<>>
    /\ trail_writes = <<>>
    /\ edge_log = <<>>
    /\ trail_buf = {}
    /\ codebook = FALSE
    /\ models = "none"

Surjections(n, k) ==
    {f \in [1 .. n -> 0 .. (k - 1)] : \A c \in 0 .. (k - 1) : \E e \in 1 .. n : f[e] = c}

Init ==
    \E n \in 1 .. MaxEvents :
      \E k \in 1 .. n :
        \E cookie_of \in Surjections(n, k) :
          \E ts \in [1 .. n -> TimestampChoices] :
            \E lists \in [1 .. n -> ItemListsSimple] :
              /\ InitRun(cookie_of, ts, lists, k)
              /\ pc = "timestamp_range"

(***************************************************************************)
(* tdb_encode, steps 1 and 2                                               *)
(***************************************************************************)
TimestampRange ==
    /\ pc = "timestamp_range"
    /\ LET r == timestamp_range(events)
       IN  /\ min_timestamp' = r.min_timestamp
           /\ max_timestamp' = r.max_timestamp
    /\ pc' = "open_grouped"
    /\ UNCHANGED <<inputVars, abort_reason, events_freed, groupVars,
                   grouped_state, info, encVars, codebook, models>>

\* fopen(grouped_path, "w") and the entry of group_events
OpenGrouped ==
    /\ pc = "open_grouped"
    /\ grouped_state' = "writing"
    /\ grouped' = <<>>
    /\ max_timestamp_delta' = 0
    /\ group_i' = 0
    /\ num_invalid' = 0
    /\ idx' = 0
    /\ pc' = "group_events"
    /\ UNCHANGED <<inputVars, abort_reason, events_freed, rangeVars,
                   info, encVars, codebook, models>>

\* one iteration of the cookie loop of group_events
GroupCookie ==
    /\ pc = "group_events"
    /\ ~GroupLoopDone(group_i)
    /\ LET buf == ChainWalk(events, group_i, cookie_pointers[group_i + 1])
       IN  \E sorted \in qsort(buf) :
             LET r == DeltaLoop(sorted, 1, min_timestamp,
                                max_timestamp_delta, num_invalid)
             IN  /\ grouped' = grouped \o r.buf
                 /\ max_timestamp_delta' = r.max_timestamp_delta
                 /\ num_invalid' = r.num_invalid
    /\ group_i' = group_i + 1
    /\ UNCHANGED <<inputVars, pc, abort_reason, events_freed, rangeVars, idx,
                   grouped_state, info, encVars, codebook, models>>

\* the ratio check after the loop; DIE ends the run
GroupGate ==
    /\ pc = "group_events"
    /\ GroupLoopDone(group_i)
    /\ IF InvalidRatioExceeded(num_invalid, idx)
       THEN /\ pc' = "aborted"
            /\ abort_reason' = "invalid_ratio"
       ELSE /\ pc' = "reopen_grouped"
            /\ UNCHANGED abort_reason
    /\ UNCHANGED <<inputVars, events_freed, rangeVars, groupVars,
                   grouped_state, info, encVars, codebook, models>>

\* SAFE_CLOSE(grouped_w, grouped_path)
CloseGrouped ==
    /\ pc = "reopen_grouped"
    /\ grouped_state = "writing"
    /\ grouped_state' = "closed"
    /\ UNCHANGED <<inputVars, pc, abort_reason, events_freed, rangeVars,
                   groupVars, info, encVars, codebook, models>>

\* fopen(grouped_path, "r"), malloc of the read buffer, setvbuf
ReopenGrouped ==
    /\ pc = "reopen_grouped"
    /\ grouped_state = "closed"
    /\ grouped_state' = "reading"
    /\ pc' = "free_events"
    /\ UNCHANGED <<inputVars, abort_reason, events_freed, rangeVars,
                   groupVars, info, encVars, codebook, models>>

\* free(events) moved ahead of the grouping
FreeEventsEarly ==
    /\ pc = "open_grouped"
    /\ ~events_freed
    /\ events_freed' = TRUE
    /\ UNCHANGED <<inputVars, pc, abort_reason, rangeVars, groupVars,
                   grouped_state, info, encVars, codebook, models>>

FreeEvents ==
    /\ pc = "free_events"
    /\ events_freed' = TRUE
    /\ pc' = "store_info"
    /\ UNCHANGED <<inputVars, abort_reason, rangeVars, groupVars,
                   grouped_state, info, encVars, codebook, models>>

(***************************************************************************)
(* store_info, and the passes of the external frequency model              *)
(***************************************************************************)
store_info(n_events, n_cookies, min_ts, max_ts, max_delta) ==
    <<n_cookies, n_events, min_ts, max_ts, max_delta>>

StoreInfo ==
    /\ pc = "store_info"
    /\ info' = store_info(num_events, num_cookies, min_timestamp,
                          max_timestamp, max_timestamp_delta)
    /\ pc' = "collect_unigrams"
    /\ UNCHANGED <<inputVars, abort_reason, events_freed, rangeVars,
                   groupVars, grouped_state, encVars, codebook, models>>

CollectUnigrams ==
    /\ pc = "collect_unigrams"
    /\ grouped_state = "reading"
    /\ models' = "unigram_freqs"
    /\ pc' = "make_grams"
    /\ UNCHANGED <<inputVars, abort_reason, events_freed, rangeVars,
                   groupVars, grouped_state, info, encVars, codebook>>

MakeGrams ==
    /\ pc = "make_grams"
    /\ grouped_state = "reading"
    /\ models' = "gram_freqs"
    /\ pc' = "create_codemap"
    /\ UNCHANGED <<inputVars, abort_reason, events_freed, rangeVars,
                   groupVars, grouped_state, info, encVars, codebook>>

\* huff_create_codemap and huff_field_stats
CreateCodemap ==
    /\ pc = "create_codemap"
    /\ models' = "codemap"
    /\ pc' = "encode_trails"
    /\ UNCHANGED <<inputVars, abort_reason, events_freed, rangeVars,
                   groupVars, grouped_state, info, encVars, codebook>>

(***************************************************************************)
(* edge_encode_items                                                       *)
(***************************************************************************)
TableKept(prev, field, item) == prev

TableUpdate(prev, field, item) == [prev EXCEPT ![field] = item]

RECURSIVE EdgeLoop(_, _, _, _, _)
EdgeLoop(its, j, end, prev, encoded) ==
    IF j >= end THEN [encoded |-> encoded, prev_items |-> prev]
    ELSE LET item == its[j + 1]
             field == tdb_item_field(item)
         IN  IF prev[field] # item
             THEN EdgeLoop(its, j + 1, end, TableUpdate(prev, field, item),
                           Append(encoded, item))
             ELSE EdgeLoop(its, j + 1, end, prev, encoded)

TimestampValid(timestamp) == (timestamp % (TagMask + 1)) = 0

edge_encode_items(its, prev, e) ==
    IF TimestampValid(e.timestamp)
    THEN EdgeLoop(its, e.item_zero, e.item_zero + e.num_items, prev, <<>>)
    ELSE [encoded |-> <<>>, prev_items |-> prev]

(***************************************************************************)
(* encode_trails                                                           *)
(***************************************************************************)
\* bits huff_encode_grams appends for one event (external entropy coder)
GramBitChoices == {0, 13}

\* a fread that never moves on from the record it holds
FreadStuck(pos, e) == [ev |-> e, pos |-> pos]

\* fread of one record: at end of file ev keeps its value
Fread(pos, e) ==
    IF pos < Len(grouped)
    THEN [ev |-> grouped[pos + 1], pos |-> pos + 1]
    ELSE [ev |-> e, pos |-> pos]

KeepPrevItems(prev) == prev

ResetPrevItems(prev) == ZeroItems

TrailSizeTruncated(offs) == offs \div 8

TrailSize(offs) ==
    IF offs % 8 # 0 THEN (offs \div 8) + 1 ELSE offs \div 8

\* the value write_bits leaves in the 3 header bits
Residual(offs) == IF offs % 8 # 0 THEN 8 - (offs % 8) ELSE 0

OverLimit(offs) == offs >= UINT32_MAX

\* The trail buffer is the set of the positions of its bits that are 1.
\* positions of the 1 bits of val, the lowest at position at
RECURSIVE BitsOf(_, _)
BitsOf(val, at) ==
    IF val = 0
    THEN {}
    ELSE (IF val % 2 = 1 THEN {at} ELSE {}) \cup BitsOf(val \div 2, at + 1)

\* write_bits(dst, offs, val) ors val into dst at bit offset offs
write_bits(dst, offs, val) == dst \cup BitsOf(val, offs)

\* huff_encode_grams over the events of one trail: n bits from offs on, and
\* no bit outside them; every code bit is taken to be 1
EncodeGramBits(dst, offs, n) == dst \cup (offs .. (offs + n - 1))

WriteResidualNever(dst, offs) == dst

\* the length residual goes into the header bits when the trail does not
\* end on a byte boundary
WriteResidual(dst, offs) ==
    IF offs % 8 # 0 THEN write_bits(dst, 0, 8 - (offs % 8)) ELSE dst

\* SAFE_WRITE(buf, trail_size): the bits of the first trail_size bytes
SafeWrite(dst, trail_size) == {b \in dst : b < 8 * trail_size}

\* memset(buf, 0, trail_size)
ClearBuf(dst, trail_size) == {b \in dst : b >= 8 * trail_size}

\* SAFE_WRITE(buf, trail_size) comes before the size check
AppendIfBelowLimit(writes, w, new_offs) ==
    IF OverLimit(new_offs) THEN writes ELSE Append(writes, w)

AppendTrail(writes, w, new_offs) == Append(writes, w)

\* emitted is a history value: the bits huff_encode_grams appended for the
\* events of this cookie.
RECURSIVE InnerLoop(_, _, _, _, _, _, _, _, _)
InnerLoop(i, pos, e, prev, offs, emitted, log, bits, cookie_id) ==
    IF i < num_events /\ e.cookie_id = cookie_id
    THEN LET r == edge_encode_items(items, prev, e)
             rd == Fread(pos, e)
             entry == [cookie_id |-> cookie_id, ev |-> e, before |-> prev,
                       encoded |-> r.encoded, after |-> r.prev_items]
         IN  InnerLoop(i + 1, rd.pos, rd.ev, r.prev_items, offs + bits[i + 1],
                       emitted + bits[i + 1], Append(log, entry), bits,
                       cookie_id)
    ELSE [i |-> i, pos |-> pos, ev |-> e, prev_items |-> prev, offs |-> offs,
          emitted |-> emitted, log |-> log]

\* entry of encode_trails up to the first fread
EncodeTrailsBegin ==
    /\ pc = "encode_trails"
    /\ trail_state = "absent"
    /\ LET offs == (num_cookies + 1) * TocEntrySize
       IN  /\ file_offs' = offs
           /\ IF OverLimit(offs)
              THEN /\ pc' = "aborted"
                   /\ abort_reason' = "over_4gb"
                   /\ UNCHANGED <<trail_state, trail_toc, grouped_pos, ev,
                                   trail_buf>>
              ELSE /\ trail_state' = "open"
                   /\ trail_buf' = {}
                   /\ trail_toc' = [s \in 0 .. num_cookies |-> Unwritten]
                   /\ LET rd == Fread(0, ev)
                      IN  /\ ev' = rd.ev
                          /\ grouped_pos' = rd.pos
                   /\ UNCHANGED <<pc, abort_reason>>
    /\ enc_i' = 0
    /\ UNCHANGED <<inputVars, events_freed, rangeVars, groupVars,
                   grouped_state, info, prev_items, trail_writes, edge_log,
                   codebook, models>>

\* one iteration of the outer loop: the trail of one cookie
EncodeCookie ==
    /\ pc = "encode_trails"
    /\ trail_state = "open"
    /\ enc_i < num_events
    /\ \E bits \in [(enc_i + 1) .. num_events -> GramBitChoices] :
         LET cookie_id == ev.cookie_id
             r == InnerLoop(enc_i, grouped_pos, ev, ResetPrevItems(prev_items),
                            HeaderBits, 0, edge_log, bits, cookie_id)
             trail_size == TrailSize(r.offs)
             filled == WriteResidual(
                           EncodeGramBits(trail_buf, HeaderBits, r.emitted),
                           r.offs)
             w == [cookie_id |-> cookie_id, at |-> file_offs,
                   size |-> trail_size, bits |-> r.offs,
                   emitted |-> r.emitted, residual |-> Residual(r.offs),
                   data |-> SafeWrite(filled, trail_size)]
             new_offs == file_offs + trail_size
         IN  /\ trail_toc' = [trail_toc EXCEPT ![cookie_id] = file_offs % OffsetMod]
             /\ enc_i' = r.i
             /\ grouped_pos' = r.pos
             /\ ev' = r.ev
             /\ prev_items' = r.prev_items
             /\ edge_log' = r.log
             /\ trail_writes' = AppendTrail(trail_writes, w, new_offs)
             /\ file_offs' = new_offs
             /\ IF OverLimit(new_offs)
                THEN /\ pc' = "aborted"
                     /\ abort_reason' = "over_4gb"
                     /\ trail_buf' = filled
                ELSE /\ trail_buf' = ClearBuf(filled, trail_size)
                     /\ UNCHANGED <<pc, abort_reason>>
    /\ UNCHANGED <<inputVars, events_freed, rangeVars, groupVars,
                   grouped_state, info, trail_state, codebook, models>>

\* the sentinel offset and SAFE_CLOSE
EncodeTrailsEnd ==
    /\ pc = "encode_trails"
    /\ trail_state = "open"
    /\ enc_i >= num_events
    /\ trail_toc' = [trail_toc EXCEPT ![num_cookies] = file_offs % OffsetMod]
    /\ trail_state' = "closed"
    /\ pc' = "store_codebook"
    /\ UNCHANGED <<inputVars, abort_reason, events_freed, rangeVars,
                   groupVars, grouped_state, info, file_offs, enc_i,
                   grouped_pos, ev, prev_items, trail_writes, edge_log,
                   trail_buf, codebook, models>>

\* store_codebook called ahead of encode_trails
StoreCodebookBeforeTrails ==
    /\ pc = "encode_trails"
    /\ trail_state = "absent"
    /\ ~codebook
    /\ codebook' = TRUE
    /\ UNCHANGED <<inputVars, pc, abort_reason, events_freed, rangeVars,
                   groupVars, grouped_state, info, encVars, models>>

StoreCodebook ==
    /\ pc = "store_codebook"
    /\ codebook' = TRUE
    /\ pc' = "cleanup"
    /\ UNCHANGED <<inputVars, abort_reason, events_freed, rangeVars,
                   groupVars, grouped_state, info, encVars, models>>

\* the end of the run without the unlink
CleanupKeepFile ==
    /\ pc = "cleanup"
    /\ models' = "freed"
    /\ pc' = "done"
    /\ UNCHANGED <<inputVars, abort_reason, events_freed, rangeVars,
                   groupVars, grouped_state, info, encVars, codebook>>

\* JLFA of the three models, fclose(grouped_r), unlink(grouped_path)
Cleanup ==
    /\ pc = "cleanup"
    /\ models' = "freed"
    /\ grouped_state' = "deleted"
    /\ pc' = "done"
    /\ UNCHANGED <<inputVars, abort_reason, events_freed, rangeVars,
                   groupVars, info, encVars, codebook>>

Next ==
    \/ TimestampRange
    \/ OpenGrouped
    \/ GroupCookie
    \/ GroupGate
    \/ CloseGrouped
    \/ ReopenGrouped
    \/ FreeEvents
    \/ StoreInfo
    \/ CollectUnigrams
    \/ MakeGrams
    \/ CreateCodemap
    \/ EncodeTrailsBegin
    \/ EncodeCookie
    \/ EncodeTrailsEnd
    \/ StoreCodebook
    \/ Cleanup

Spec == Init /\ [][Next]_vars

(***************************************************************************)
(* The same program with its scheduling stated: tdb_encode is one          *)
(* sequential call, so while a step remains one is taken.  The timestamps  *)
(* are the base or one delta limit past it, which gives runs with and      *)
(* without invalid records.                                                *)
(***************************************************************************)
LiveTimestampChoices == {1, DeltaLimit + 1}

InitLive ==
    \E n \in 1 .. MaxEvents :
      \E k \in 1 .. n :
        \E cookie_of \in Surjections(n, k) :
          \E ts \in [1 .. n -> LiveTimestampChoices] :
            \E lists \in [1 .. n -> ItemListsSimple] :
              /\ InitRun(cookie_of, ts, lists, k)
              /\ pc = "timestamp_range"

SpecLive == InitLive /\ [][Next]_vars /\ WF_vars(Next)

(***************************************************************************)
(* The same program on inputs that vary the items: event e happens at time *)
(* e, so every chain is walked latest first and sorted back.               *)
(***************************************************************************)
ItemListsVaried ==
    {<<ItemOf(1, 1)>>,
     <<ItemOf(1, 2)>>,
     <<ItemOf(1, 1), ItemOf(2, 1)>>}

InitItems ==
    \E n \in 1 .. MaxEvents :
      \E k \in 1 .. n :
        \E cookie_of \in Surjections(n, k) :
          \E lists \in [1 .. n -> ItemListsVaried] :
            /\ InitRun(cookie_of, [e \in 1 .. n |-> e], lists, k)
            /\ pc = "timestamp_range"

SpecItems == InitItems /\ [][Next]_vars

(***************************************************************************)
(* Unit specification of the delta loop and edge_encode_items: a caller    *)
(* groups the events of one cookie and hands the records of the run, the   *)
(* invalid ones included, to edge_encode_items (an exported function) one  *)
(* by one, starting from a zeroed table.                                   *)
(***************************************************************************)
EdgeTimestampChoices == {1, DeltaLimit + 1}

ItemListsRich ==
    {<<>>,
     <<ItemOf(1, 1)>>,
     <<ItemOf(1, 2)>>,
     <<ItemOf(1, 1), ItemOf(2, 1)>>,
     <<ItemOf(1, 1), ItemOf(1, 1), ItemOf(1, 2)>>}

InitEdge ==
    \E n \in 1 .. MaxEvents :
      \E ts \in [1 .. n -> EdgeTimestampChoices] :
        \E lists \in [1 .. n -> ItemListsRich] :
          /\ InitRun([e \in 1 .. n |-> 0], ts, lists, 1)
          /\ pc = "edge_unit_group"

\* timestamp_range, then the body of the cookie loop of group_events
EdgeUnitGroup ==
    /\ pc = "edge_unit_group"
    /\ LET r == timestamp_range(events)
           buf == ChainWalk(events, 0, cookie_pointers[1])
       IN  /\ min_timestamp' = r.min_timestamp
           /\ max_timestamp' = r.max_timestamp
           /\ \E sorted \in qsort(buf) :
                LET d == DeltaLoop(sorted, 1, r.min_timestamp, 0, 0)
                IN  /\ grouped' = d.buf
                    /\ max_timestamp_delta' = d.max_timestamp_delta
                    /\ num_invalid' = d.num_invalid
    /\ group_i' = 1
    /\ prev_items' = ResetPrevItems(prev_items)
    /\ grouped_pos' = 0
    /\ pc' = "edge_unit_encode"
    /\ UNCHANGED <<inputVars, abort_reason, events_freed, idx, grouped_state,
                   info, file_offs, enc_i, ev, trail_state, trail_toc,
                   trail_writes, edge_log, trail_buf, codebook, models>>

\* one call of edge_encode_items on the next record of the run
EdgeUnitCall ==
    /\ pc = "edge_unit_encode"
    /\ grouped_pos < Len(grouped)
    /\ LET e == grouped[grouped_pos + 1]
           r == edge_encode_items(items, prev_items, e)
       IN  /\ ev' = e
           /\ prev_items' = r.prev_items
           /\ edge_log' = Append(edge_log,
                                 [cookie_id |-> e.cookie_id, ev |-> e,
                                  before |-> prev_items, encoded |-> r.encoded,
                                  after |-> r.prev_items])
    /\ grouped_pos' = grouped_pos + 1
    /\ UNCHANGED <<inputVars, pc, abort_reason, events_freed, rangeVars,
                   groupVars, grouped_state, info, file_offs, enc_i,
                   trail_state, trail_toc, trail_writes, trail_buf, codebook,
                   models>>

NextEdge ==
    \/ EdgeUnitGroup
    \/ EdgeUnitCall

SpecEdge == InitEdge /\ [][NextEdge]_vars

(***************************************************************************)
(* Properties                                                              *)
(***************************************************************************)
Tag(rec) == rec.timestamp % (2 ^ TagBits)

StoredDelta(rec) == rec.timestamp \div (2 ^ TagBits)

FirstOfRun(seq, j) == j = 1 \/ seq[j - 1].cookie_id # seq[j].cookie_id

RunOf(seq, c) == {j \in 1 .. Len(seq) : seq[j].cookie_id = c}

\* the original timestamp of the last valid-tagged record before j in the
\* run of j, the base timestamp when there is none
LastValidRef(j) ==
    LET earlier == {k \in 1 .. (j - 1) :
                        /\ grouped[k].cookie_id = grouped[j].cookie_id
                        /\ Tag(grouped[k]) = 0}
    IN  IF earlier = {} THEN min_timestamp ELSE grouped[SetMax(earlier)].orig

EncodeTrailsCompleted == pc \in {"store_codebook", "cleanup", "done"}

GateEvaluated == pc \notin {"timestamp_range", "open_grouped", "group_events"}

\* the bit length of the bitstream of entity c: the header and the bits
\* the entropy coder appended for its events
RECURSIVE SumEmitted(_, _)
SumEmitted(n, c) ==
    IF n = 0 THEN 0
    ELSE SumEmitted(n - 1, c)
         + (IF trail_writes[n].cookie_id = c THEN trail_writes[n].emitted ELSE 0)

EntityBits(c) == HeaderBits + SumEmitted(Len(trail_writes), c)

PaddedBytes(nbits) == (nbits + 7) \div 8

TrailFileSize ==
    SetMax({0}
           \cup {trail_writes[j].at + trail_writes[j].size : j \in 1 .. Len(trail_writes)}
           \cup {(s + 1) * TocEntrySize : s \in {t \in DOMAIN trail_toc : trail_toc[t] # Unwritten}})

\* C1: after encode_trails has completed, for every entity i the TOC slots
\* satisfy slot[i] <= slot[i+1], slot[i+1] - slot[i] is the byte length of
\* the padded bitstream of entity i (ceil(bit length / 8)), the bytes of
\* entity i were written at file offset slot[i], and slot[num_cookies] is
\* the final size of the trail file.
C1_TocConsistent ==
    EncodeTrailsCompleted =>
        /\ \A i \in 0 .. (num_cookies - 1) :
            /\ trail_toc[i] # Unwritten
            /\ trail_toc[i] <= trail_toc[i + 1]
            /\ trail_toc[i + 1] - trail_toc[i] = PaddedBytes(EntityBits(i))
            /\ \E j \in 1 .. Len(trail_writes) :
                /\ trail_writes[j].cookie_id = i
                /\ trail_writes[j].at = trail_toc[i]
                /\ trail_writes[j].size = PaddedBytes(EntityBits(i))
        /\ trail_toc[num_cookies] = TrailFileSize

C1_Witness ==
    /\ pc = "done"
    /\ num_cookies = 2
    /\ \E j, k \in 1 .. Len(trail_writes) :
        /\ trail_writes[j].bits % 8 # 0
        /\ trail_writes[k].bits % 8 = 0
        /\ trail_writes[k].size >= 2
        /\ trail_writes[k].cookie_id # trail_writes[j].cookie_id

\* C2: group_events aborts the run if and only if invalid_count divided by
\* the number of grouped records exceeds MAX_INVALID_RATIO; an input whose
\* ratio is at or below the limit completes grouping.
C2_AbortIffRatioExceeded ==
    GateEvaluated =>
        ((abort_reason = "invalid_ratio")
            <=> (num_invalid * MaxInvalidRatioDen
                    > MaxInvalidRatioNum * Len(grouped)))

\* C3: starting a reference at the base timestamp at the beginning of each
\* run and adding the stored delta of every valid-tagged record, in run
\* order, reproduces the original timestamp of that record; invalid records
\* are skipped and leave the reference alone.
RECURSIVE DecodedRef(_)
DecodedRef(j) ==
    LET start == IF FirstOfRun(grouped, j) THEN min_timestamp
                 ELSE DecodedRef(j - 1)
    IN  IF Tag(grouped[j]) = 0 THEN start + StoredDelta(grouped[j]) ELSE start

C3_DeltaRoundTrip ==
    \A j \in 1 .. Len(grouped) :
        Tag(grouped[j]) = 0 => DecodedRef(j) = grouped[j].orig

C3_Witness ==
    \E j \in 1 .. Len(grouped) :
        /\ Tag(grouped[j]) # 0
        /\ \E k \in 1 .. (j - 1) :
            /\ grouped[k].cookie_id = grouped[j].cookie_id
            /\ ~FirstOfRun(grouped, k)
            /\ Tag(grouped[k]) = 0
            /\ StoredDelta(grouped[k]) > 0

\* C4: every record whose delta from the last valid reference exceeds
\* 2^DeltaBits - 1 is stored with a nonzero validity tag (stored timestamp
\* 1), and edge_encode_items on such a record returns no item and leaves
\* every entry of the table unchanged.
C4_InvalidTagging ==
    /\ \A j \in 1 .. Len(grouped) :
        grouped[j].orig - LastValidRef(j) > DeltaLimit - 1
            => /\ Tag(grouped[j]) # 0
               /\ grouped[j].timestamp = 1
    /\ \A n \in 1 .. Len(edge_log) :
        grouped[n].orig - LastValidRef(n) > DeltaLimit - 1
            => /\ edge_log[n].ev = grouped[n]
               /\ edge_log[n].encoded = <<>>
               /\ edge_log[n].after = edge_log[n].before

C4_Witness ==
    \E n \in 1 .. Len(edge_log) :
        LET e == edge_log[n].ev
        IN  /\ grouped[n].orig - LastValidRef(n) > DeltaLimit - 1
            /\ e.num_items > 0
            /\ edge_log[n].before # ZeroItems
            /\ \E j \in (e.item_zero + 1) .. (e.item_zero + e.num_items) :
                 edge_log[n].before[tdb_item_field(items[j])] # items[j]

\* C5: for a valid event edge_encode_items outputs, in item order, exactly
\* the items of [item_zero, item_zero + num_items) that differ from the
\* table entry of their field at the moment they are examined; afterwards
\* the entry of each such field holds the emitted item and the other
\* entries are unchanged.  Events [A=1], [A=1], [A=2] encoded from a zeroed
\* table give [A=1], [], [A=2].
ItemPositions(e) == (e.item_zero + 1) .. (e.item_zero + e.num_items)

\* what the table holds for the field of the item at position j when the
\* item is examined
SeenAt(e, table, j) ==
    LET earlier == {k \in ItemPositions(e) :
                        /\ k < j
                        /\ tdb_item_field(items[k]) = tdb_item_field(items[j])}
    IN  IF earlier = {} THEN table[tdb_item_field(items[j])]
        ELSE items[SetMax(earlier)]

ExpectedEncoded(e, table) ==
    LET Differs(j) == items[j] # SeenAt(e, table, j)
        kept == SelectSeq([k \in 1 .. e.num_items |-> e.item_zero + k], Differs)
    IN  [k \in 1 .. Len(kept) |-> items[kept[k]]]

ExpectedAfter(e, table) ==
    [f \in Fields |->
        LET emitted == {j \in ItemPositions(e) :
                            /\ tdb_item_field(items[j]) = f
                            /\ items[j] # SeenAt(e, table, j)}
        IN  IF emitted = {} THEN table[f] ELSE items[SetMax(emitted)]]

EventItems(e) == [k \in 1 .. e.num_items |-> items[e.item_zero + k]]

C5_EdgeEncoding ==
    /\ \A n \in 1 .. Len(edge_log) :
        Tag(edge_log[n].ev) = 0
            => /\ edge_log[n].encoded
                    = ExpectedEncoded(edge_log[n].ev, edge_log[n].before)
               /\ edge_log[n].after
                    = ExpectedAfter(edge_log[n].ev, edge_log[n].before)
    /\ (/\ Len(edge_log) = 3
        /\ \A n \in 1 .. 3 : Tag(edge_log[n].ev) = 0
        /\ EventItems(edge_log[1].ev) = <<ItemOf(1, 1)>>
        /\ EventItems(edge_log[2].ev) = <<ItemOf(1, 1)>>
        /\ EventItems(edge_log[3].ev) = <<ItemOf(1, 2)>>)
       => /\ edge_log[1].encoded = <<ItemOf(1, 1)>>
          /\ edge_log[2].encoded = <<>>
          /\ edge_log[3].encoded = <<ItemOf(1, 2)>>

C5_Witness ==
    /\ Len(edge_log) = 3
    /\ \A n \in 1 .. 3 : Tag(edge_log[n].ev) = 0
    /\ EventItems(edge_log[1].ev) = <<ItemOf(1, 1)>>
    /\ EventItems(edge_log[2].ev) = <<ItemOf(1, 1)>>
    /\ EventItems(edge_log[3].ev) = <<ItemOf(1, 2)>>
    /\ edge_log[2].encoded = <<>>

\* C6: encode_trails zeroes the table before the first event of every
\* entity, so the first event of an entity is encoded against the zeroed
\* table, every later event against the table its predecessor of the same
\* entity left, and the output of an entity does not depend on the entities
\* encoded before it.
C6_EntityIsolation ==
    \A n \in 1 .. Len(edge_log) :
        LET table == IF FirstOfRun(edge_log, n) THEN ZeroItems
                     ELSE edge_log[n - 1].after
        IN  /\ edge_log[n].before = table
            /\ edge_log[n].encoded = ExpectedEncoded(edge_log[n].ev, table)

C6_Witness ==
    /\ pc = "done"
    /\ \E n \in 2 .. Len(edge_log) :
        /\ FirstOfRun(edge_log, n)
        /\ edge_log[n].encoded # <<>>
        /\ edge_log[n].encoded = ExpectedEncoded(edge_log[n].ev, ZeroItems)
        /\ ExpectedEncoded(edge_log[n].ev, edge_log[n - 1].after) = <<>>

\* C7: encode_trails is aborted by the size guard exactly when the
\* cumulative offset reaches or exceeds UINT32_MAX + 1 (2^32 in the code);
\* a run whose trail file stays below that, a final size of UINT32_MAX
\* included, is not aborted by the guard.
C7_AbortIffCeilingReached ==
    (abort_reason = "over_4gb") <=> (file_offs >= OffsetMod)

\* C8 (as stated): when the append of a trail takes the cumulative offset
\* to the ceiling, the run aborts and the bytes of the offending trail are
\* not written, nor any later TOC slot, nor the sentinel offset.
C8_OffendingTrailNotWritten ==
    (abort_reason = "over_4gb" /\ trail_state = "open" /\ file_offs >= OffsetMod)
        => /\ \A j \in 1 .. Len(trail_writes) :
                trail_writes[j].at + trail_writes[j].size < OffsetMod
           /\ trail_toc[num_cookies] = Unwritten

\* C8 (amended): when the size guard of the loop aborts the run, the TOC
\* slot and the bytes of the offending trail are the last writes to the
\* trail file: the trail ends at the cumulative offset that tripped the
\* guard, and no TOC slot of a later entity, no later trail and no sentinel
\* offset is written.
C8_AbortAfterOffendingWrite ==
    (abort_reason = "over_4gb" /\ trail_state = "open")
        => /\ pc = "aborted"
           /\ Len(trail_writes) > 0
           /\ LET w == trail_writes[Len(trail_writes)]
              IN  /\ w.at + w.size = file_offs
                  /\ OverLimit(file_offs)
                  /\ trail_toc[w.cookie_id] = w.at
                  /\ \A c \in (w.cookie_id + 1) .. num_cookies :
                        trail_toc[c] = Unwritten
                  /\ \A j \in 1 .. Len(trail_writes) :
                        trail_writes[j].cookie_id <= w.cookie_id

C8_Witness ==
    /\ abort_reason = "over_4gb"
    /\ trail_state = "open"
    /\ Len(trail_writes) = 2
    /\ file_offs >= OffsetMod

\* C9: the invalid-ratio gate is evaluated after all entities have been
\* grouped, never per entity; when it aborts the run, trails.data has not
\* been created and neither info nor the codebook has been written.
C9_GateAfterGrouping ==
    abort_reason = "invalid_ratio"
        => /\ pc = "aborted"
           /\ group_i = num_cookies
           /\ Len(grouped) = num_events
           /\ trail_state = "absent"
           /\ trail_writes = <<>>
           /\ info = NoInfo
           /\ codebook = FALSE

C9_Witness ==
    /\ abort_reason = "invalid_ratio"
    /\ num_cookies >= 2
    /\ \E j \in 1 .. Len(grouped) :
        /\ grouped[j].cookie_id = 0
        /\ Tag(grouped[j]) # 0
    /\ \A j \in 1 .. Len(grouped) :
        grouped[j].cookie_id > 0 => Tag(grouped[j]) = 0

\* C10: the grouped stream holds one non-empty contiguous run per grouped
\* entity, in strictly increasing entity-id order; each run holds exactly
\* one record per event of the backlink chain of its entity; within a run
\* the records are in non-decreasing order of original timestamp.
RECURSIVE ChainSet(_)
ChainSet(at) ==
    {at + 1} \cup (IF events[at + 1].prev_event_idx # 0
                   THEN ChainSet(events[at + 1].prev_event_idx - 1)
                   ELSE {})

SameEvent(rec, e) ==
    /\ rec.item_zero = e.item_zero
    /\ rec.num_items = e.num_items
    /\ rec.orig = e.timestamp

C10_GroupedShape ==
    /\ \A j \in 1 .. (Len(grouped) - 1) :
        /\ grouped[j].cookie_id <= grouped[j + 1].cookie_id
        /\ grouped[j].cookie_id = grouped[j + 1].cookie_id
            => grouped[j].orig <= grouped[j + 1].orig
    /\ {grouped[j].cookie_id : j \in 1 .. Len(grouped)} = 0 .. (group_i - 1)
    /\ \A c \in 0 .. (group_i - 1) :
        LET run == RunOf(grouped, c)
            chain == ChainSet(cookie_pointers[c + 1])
        IN  /\ run # {}
            /\ Cardinality(run) = Cardinality(chain)
            /\ \E f \in [run -> chain] :
                /\ \A a, b \in run : f[a] = f[b] => a = b
                /\ \A a \in run : SameEvent(grouped[a], events[f[a]])

C10_Witness ==
    /\ group_i = num_cookies
    /\ num_cookies = 2
    /\ \E j \in 1 .. (Len(grouped) - 1) :
        /\ grouped[j].cookie_id = grouped[j + 1].cookie_id
        /\ grouped[j].orig < grouped[j + 1].orig
        /\ grouped[j].item_zero > grouped[j + 1].item_zero
(***************************************************************************)
(* C11: in every trail written to trails.data the value held in the first  *)
(* three bits is the number of padding bits that follow the last code bit  *)
(* in the last byte: 0 when the trail ends on a byte boundary, 8 minus     *)
(* (bit offset mod 8) otherwise; and every padding bit is 0.               *)
(***************************************************************************)
HeaderValue(data) ==
    (IF 0 \in data THEN 1 ELSE 0) + (IF 1 \in data THEN 2 ELSE 0)
        + (IF 2 \in data THEN 4 ELSE 0)

PaddingBits(w) == w.bits .. (8 * w.size - 1)

EventReaderStages == {"timestamp_range", "open_grouped", "group_events"}

GroupedFullyWritten ==
    /\ Len(grouped) = num_events
    /\ group_i = num_cookies
    /\ \A e \in 1 .. num_events :
          \E j \in 1 .. Len(grouped) : grouped[j].orig = events[e].timestamp

C12_EventArrayLifetime ==
    events_freed =>
        /\ grouped_state \in {"reading", "deleted"}
        /\ GroupedFullyWritten
        /\ pc \notin EventReaderStages
        /\ ~ENABLED TimestampRange
        /\ ~ENABLED GroupCookie

\* the array has just been released, the file of a two-entity input is
\* back open for reading
C12_Witness ==
    /\ events_freed
    /\ pc = "store_info"
    /\ grouped_state = "reading"
    /\ num_cookies >= 2
    /\ Len(grouped) = num_events
(***************************************************************************)
(* C13, as stated: once the run has ended, by completing or by aborting,   *)
(* the intermediate grouped file no longer exists.                         *)
(***************************************************************************)
RunEnded == pc \in {"done", "aborted"}

FileRank(state) ==
    CASE state = "absent" -> 0
      [] state = "writing" -> 1
      [] state = "closed" -> 2
      [] state = "reading" -> 3
      [] state = "deleted" -> 4

\* a step that reads the file: a frequency pass or a fread of the encoder
ReadsGrouped ==
    \/ models' \in {"unigram_freqs", "gram_freqs"} /\ models' # models
    \/ grouped_pos' # grouped_pos

LifecycleStep ==
    /\ FileRank(grouped_state') - FileRank(grouped_state) \in {0, 1}
    /\ grouped' # grouped => grouped_state = "writing" /\ grouped_state' = "writing"
    /\ (grouped_state = "writing" /\ grouped_state' = "closed")
          => GroupedFullyWritten
    /\ ReadsGrouped => grouped_state = "reading" /\ grouped_state' = "reading"
    /\ (grouped_state = "reading" /\ grouped_state' = "deleted")
          => /\ models = "codemap"
             /\ trail_state = "closed"
             /\ grouped_pos = num_events
    /\ pc' = "done" => grouped_state' = "deleted"
    /\ pc' = "aborted" => grouped_state' \in {"writing", "reading"}
    /\ grouped_state' = "deleted" => pc' = "done"

RangeScanned == pc # "timestamp_range"

GroupingDone ==
    /\ RangeScanned
    /\ GroupedFullyWritten
    /\ grouped_state \in {"closed", "reading", "deleted"}

AllStagesDone ==
    /\ GroupingDone
    /\ events_freed
    /\ info = store_info(num_events, num_cookies, min_timestamp,
                         max_timestamp, max_timestamp_delta)
    /\ models = "freed"
    /\ trail_state = "closed"
    /\ codebook
    /\ grouped_state = "deleted"

StageOrderStep ==
    /\ grouped_state' # grouped_state /\ grouped_state' = "writing"
          => RangeScanned /\ ~events_freed
    /\ grouped' # grouped => RangeScanned /\ ~events_freed
    /\ events_freed' # events_freed => GroupingDone /\ info = NoInfo
    /\ info' # info
          => /\ events_freed
             /\ GroupingDone
             /\ info'[5] = max_timestamp_delta
             /\ models = "none"
             /\ trail_state = "absent"
    /\ models' # models
          => \/ models = "none" /\ models' = "unigram_freqs" /\ info # NoInfo
             \/ models = "unigram_freqs" /\ models' = "gram_freqs"
             \/ models = "gram_freqs" /\ models' = "codemap"
             \/ /\ models = "codemap"
                /\ models' = "freed"
                /\ codebook
                /\ grouped_state' = "deleted"
    /\ trail_state' # trail_state /\ trail_state' = "open"
          => models = "codemap" /\ info # NoInfo /\ ~codebook
    /\ trail_writes' # trail_writes => models = "codemap" /\ ~codebook
    /\ codebook' # codebook => trail_state = "closed" /\ models = "codemap"
    /\ pc' = "done" => AllStagesDone'

C14_StageOrder == [][StageOrderStep]_vars

\* a completed run of two entities with both trails and the codebook on disk
C14_Witness ==
    /\ pc = "done"
    /\ AllStagesDone
    /\ num_cookies >= 2
    /\ Len(trail_writes) = num_cookies
    /\ max_timestamp_delta > 0
(***************************************************************************)
(* C15: the maximum delta group_events returns, and store_info writes, is  *)
(* the largest delta among the valid-tagged records of all entities (0     *)
(* when there is none); it is below the delta limit, no invalid record     *)
(* raises it, and every valid stored delta is at most it.                  *)
(***************************************************************************)
ValidRecords == {j \in 1 .. Len(grouped) : Tag(grouped[j]) = 0}

ValidDeltas == {StoredDelta(grouped[j]) : j \in ValidRecords}

\* the distance of a record from its reference, whatever its tag
TrueDistance(j) == grouped[j].orig - LastValidRef(j)

C15_ReportedMaxDelta ==
    /\ pc \notin {"timestamp_range", "open_grouped"}
          => /\ max_timestamp_delta = SetMax(ValidDeltas \cup {0})
             /\ max_timestamp_delta < DeltaLimit
             /\ \A j \in ValidRecords :
                    /\ StoredDelta(grouped[j]) <= max_timestamp_delta
                    /\ TrueDistance(j) <= max_timestamp_delta
             /\ max_timestamp_delta =
                    SetMax({TrueDistance(j) : j \in ValidRecords} \cup {0})
    /\ info # NoInfo
          => /\ GroupedFullyWritten
             /\ info[5] = max_timestamp_delta
             /\ info[5] = SetMax(ValidDeltas \cup {0})

\* info holds the maximum of two entities; the record that gives it is not
\* the last one grouped
C15_Witness ==
    /\ info # NoInfo
    /\ num_cookies >= 2
    /\ info[5] > 0
    /\ StoredDelta(grouped[Len(grouped)]) < info[5]
    /\ \E j \in ValidRecords : StoredDelta(grouped[j]) = info[5]
(***************************************************************************)
(* C16: for a non-empty Event array timestamp_range returns the smallest   *)
(* and the largest timestamp over all events and leaves the array as it    *)
(* was; the minimum it returned is the base every run of group_events      *)
(* starts from.                                                            *)
(***************************************************************************)
AllTimestamps == {events[e].timestamp : e \in 1 .. num_events}

SetMin(S) == CHOOSE x \in S : \A y \in S : x <= y

\* the first record of every run is reckoned from base
RunsStartFrom(seq, base) ==
    \A j \in 1 .. Len(seq) :
        FirstOfRun(seq, j) =>
            IF seq[j].orig - base < DeltaLimit
            THEN Tag(seq[j]) = 0 /\ StoredDelta(seq[j]) = seq[j].orig - base
            ELSE Tag(seq[j]) # 0

RangeScanStep ==
    /\ (pc = "timestamp_range" /\ pc' # pc)
          => /\ num_events > 0
             /\ events' = events
             /\ min_timestamp' = SetMin(AllTimestamps)
             /\ max_timestamp' = SetMax(AllTimestamps)
    /\ grouped' # grouped
          => /\ min_timestamp = SetMin(AllTimestamps)
             /\ RunsStartFrom(grouped', SetMin(AllTimestamps))

C16_RangeScan == [][RangeScanStep]_vars

\* neither bound is where the scan starts or ends, and two runs were
\* grouped from the minimum
C16_Witness ==
    /\ GateEvaluated
    /\ num_cookies >= 2
    /\ min_timestamp < max_timestamp
    /\ events[1].timestamp # min_timestamp
    /\ events[num_events].timestamp # max_timestamp
    /\ \E j \in 1 .. Len(grouped) :
          FirstOfRun(grouped, j) /\ StoredDelta(grouped[j]) > 0
(***************************************************************************)
(* C17: on inputs whose backlink chains are acyclic and end at an event    *)
(* without predecessor, the chain walk visits each event of the chain once *)
(* and stops, the run eventually ends (it completes or it aborts), every   *)
(* iteration of the entity loop of encode_trails consumes at least one     *)
(* record, and the loop stops after exactly num_events records.            *)
(***************************************************************************)
ChainWalkStep ==
    grouped' # grouped =>
        LET chain == ChainSet(cookie_pointers[group_i + 1])
            run == RunOf(grouped', group_i)
        IN  /\ Len(grouped') = Len(grouped) + Cardinality(chain)
            /\ Cardinality(run) = Cardinality(chain)
            /\ \A e \in chain :
                  Cardinality({j \in run : SameEvent(grouped'[j], events[e])})
                     = Cardinality({d \in chain : SameEvent(
                           [item_zero |-> events[d].item_zero,
                            num_items |-> events[d].num_items,
                            orig |-> events[d].timestamp], events[e])})

EntityLoopStep ==
    /\ enc_i' # enc_i
          => /\ enc_i' > enc_i
             /\ enc_i' <= num_events
             /\ Len(edge_log') - Len(edge_log) = enc_i' - enc_i
             /\ grouped_pos' = (IF enc_i' < num_events THEN enc_i' + 1
                                ELSE num_events)
    /\ trail_writes' # trail_writes => enc_i' > enc_i
    /\ (trail_state = "open" /\ trail_state' = "closed")
          => /\ enc_i = num_events
             /\ grouped_pos = num_events
             /\ Len(edge_log) = num_events

C17_Termination ==
    /\ <>RunEnded
    /\ [][ChainWalkStep /\ EntityLoopStep]_vars

\* a run of two entities came to its end through every record
C17_Witness ==
    /\ pc = "done"
    /\ num_cookies >= 2
    /\ enc_i = num_events
    /\ Len(edge_log) = num_events
    /\ \E c \in 0 .. (num_cookies - 1) : Cardinality(RunOf(grouped, c)) >= 2
(***************************************************************************)
(* C18: within the run of an entity no valid-tagged record follows an      *)
(* invalid-tagged one: the invalid records are a suffix of the run.        *)
(***************************************************************************)
C18_InvalidSuffix ==
    \A j, k \in 1 .. Len(grouped) :
        (/\ j < k
         /\ grouped[j].cookie_id = grouped[k].cookie_id
         /\ Tag(grouped[j]) # 0)
            => Tag(grouped[k]) # 0

\* a valid record, then two invalid ones, the second later than the first
C18_Witness ==
    \E j \in 1 .. (Len(grouped) - 2) :
        /\ grouped[j].cookie_id = grouped[j + 2].cookie_id
        /\ Tag(grouped[j]) = 0
        /\ Tag(grouped[j + 1]) # 0
        /\ Tag(grouped[j + 2]) # 0
        /\ grouped[j + 1].orig < grouped[j + 2].orig
        /\ grouped[j + 2].orig - grouped[j + 1].orig < DeltaLimit
(***************************************************************************)
(* C19: every trail is at least one byte long, its bit offset starting at  *)
(* the reserved header bits even when its events add no code bit; so the   *)
(* TOC offsets are strictly increasing, and the offset of entity 0 is      *)
(* (number of entities + 1) * 4, the size of the TOC.                      *)
(***************************************************************************)
WrittenSlots ==
    IF trail_state = "absent" THEN {}
    ELSE {s \in 0 .. num_cookies : trail_toc[s] # Unwritten}

C19_TrailsNotEmpty ==
    /\ \A j \in 1 .. Len(trail_writes) :
          /\ trail_writes[j].bits >= HeaderBits
          /\ trail_writes[j].size >= 1
    /\ \A s, t \in WrittenSlots : s < t => trail_toc[s] < trail_toc[t]
    /\ 0 \in WrittenSlots => trail_toc[0] = (num_cookies + 1) * TocEntrySize
    /\ Len(trail_writes) > 0 => 0 \in WrittenSlots
    /\ EncodeTrailsCompleted
          => /\ WrittenSlots = 0 .. num_cookies
             /\ \A s \in 0 .. (num_cookies - 1) :
                    trail_toc[s + 1] - trail_toc[s] >= 1

\* a completed run of two entities of which one added no code bit at all
C19_Witness ==
    /\ EncodeTrailsCompleted
    /\ num_cookies = 2
    /\ \E j \in 1 .. Len(trail_writes) :
          /\ trail_writes[j].emitted = 0
          /\ trail_writes[j].bits = HeaderBits
          /\ trail_writes[j].size = 1
    /\ trail_toc[2] > trail_toc[1]
(***************************************************************************)
(* C20: the 32-bit subtraction timestamp - reference of group_events never *)
(* wraps: the reference is never later than the record measured against    *)
(* it, so the stored delta of a valid record is its true distance and a    *)
(* record is tagged invalid only when its true distance from the           *)
(* reference is at least the delta limit.                                  *)
(***************************************************************************)
C20_NoDeltaUnderflow ==
    \A j \in 1 .. Len(grouped) :
        LET wrapped == Sub32(grouped[j].orig, LastValidRef(j))
        IN  /\ LastValidRef(j) <= grouped[j].orig
            /\ wrapped = TrueDistance(j)
            /\ Tag(grouped[j]) = 0
                  => /\ grouped[j].timestamp = Shl8(wrapped)
                     /\ StoredDelta(grouped[j]) = TrueDistance(j)
            /\ Tag(grouped[j]) # 0
                  => /\ ~DeltaFits(wrapped)
                     /\ TrueDistance(j) >= DeltaLimit

\* a record exactly the delta limit away from a reference that had been
\* advanced past the base is tagged invalid
C20_Witness ==
    \E j \in 1 .. Len(grouped) :
        /\ Tag(grouped[j]) # 0
        /\ LastValidRef(j) > min_timestamp
        /\ TrueDistance(j) = DeltaLimit
====
